---- MODULE Spec2Model ----
(***************************************************************************)
(* Elicia AI: the Chainlit message handler (chainlit_app.py), the tool     *)
(* registry and dispatcher (tools/tool_registry.py) and the calculators    *)
(* the dispatcher binds arguments to (tools/*.py).                         *)
(*                                                                         *)
(* Text is modelled as a sequence of string tokens, so that concatenation  *)
(* is \o and formatting keeps its parts.  JSON values carry their type:    *)
(* [num |-> n], [str |-> s], [arr |-> q], [none |-> TRUE].                 *)
(***************************************************************************)
EXTENDS Integers, Sequences, FiniteSets, TLC

(***************************************************************************)
(* Bounds of the model.                                                    *)
(***************************************************************************)
MaxTurns == 2
MaxToolCalls == 2
MaxChunks == 2

Sessions == {"s1", "s2"}

(***************************************************************************)
(* JSON values and argument mappings (Python dicts with string keys).      *)
(***************************************************************************)
Num(n) == [num |-> n]
Str(s) == [str |-> s]
Arr(q) == [arr |-> q]
PyNone == [none |-> TRUE]

IsNum(v) == DOMAIN v = {"num"}
IsStr(v) == DOMAIN v = {"str"}

Drop(a, k) == [x \in DOMAIN a \ {k} |-> a[x]]
With(a, k, v) == [x \in DOMAIN a \cup {k} |-> IF x = k THEN v ELSE a[x]]
EmptyArgs == <<>>

(***************************************************************************)
(* Signatures of the calculators: parameters and default values.           *)
(***************************************************************************)
Functions ==
    {"calculate_bmi", "calculate_tdee", "calculate_macros",
     "calculate_one_rep_max", "calculate_body_fat_navy",
     "calculate_heart_rate_zones", "calculate_hydration",
     "generate_workout", "get_exercise_recommendations",
     "calculate_progressive_overload", "generate_meal_plan",
     "get_nutrition_info", "calculate_meal_macros",
     "get_healthy_alternatives"}

Defaults(f) ==
    CASE f = "calculate_body_fat_navy" -> [hip_cm |-> PyNone]
      [] f = "calculate_hydration" -> [activity_level |-> Str("moderate")]
      [] f = "generate_workout" -> [duration_minutes |-> Num(60)]
      [] f = "get_exercise_recommendations" -> [level |-> Str("intermediate")]
      [] f = "calculate_progressive_overload" -> [progression_type |-> Str("weight")]
      [] f = "generate_meal_plan" ->
            [meals_per_day |-> Num(3), dietary_preference |-> Str("balanced")]
      [] OTHER -> <<>>

Required(f) ==
    CASE f = "calculate_bmi" -> {"weight_kg", "height_cm"}
      [] f = "calculate_tdee" ->
            {"weight_kg", "height_cm", "age", "gender", "activity_level"}
      [] f = "calculate_macros" -> {"calories", "goal", "weight_kg"}
      [] f = "calculate_one_rep_max" -> {"weight", "reps"}
      [] f = "calculate_body_fat_navy" ->
            {"gender", "waist_cm", "neck_cm", "height_cm"}
      [] f = "calculate_heart_rate_zones" -> {"age"}
      [] f = "calculate_hydration" -> {"weight_kg"}
      [] f = "generate_workout" ->
            {"goal", "level", "days_per_week", "equipment"}
      [] f = "get_exercise_recommendations" -> {"muscle_group", "equipment"}
      [] f = "calculate_progressive_overload" ->
            {"current_weight", "current_reps", "target_reps"}
      [] f = "generate_meal_plan" ->
            {"calories", "protein_g", "carbs_g", "fat_g"}
      [] f = "get_nutrition_info" -> {"food_item"}
      [] f = "calculate_meal_macros" -> {"ingredients"}
      [] f = "get_healthy_alternatives" -> {"food_item"}

Params(f) == Required(f) \cup DOMAIN Defaults(f)

(***************************************************************************)
(* Outcomes of a Python call: a returned value or a raised exception.      *)
(***************************************************************************)
Return(v) == [kind |-> "return", value |-> v]
Raise(e) == [kind |-> "raise", exc |-> e]

\* An exception: its class, and the parts of its message.
Exc(type, func, text, keys) ==
    [type |-> type, func |-> func, text |-> text, keys |-> keys]

\* str(e): the message without the class
StrOf(e) == [func |-> e.func, text |-> e.text, keys |-> e.keys]

\* the subclasses of Exception among the exceptions raised here
ExceptionClasses ==
    {"TypeError", "AttributeError", "ZeroDivisionError", "JSONDecodeError",
     "APIError"}

\* func(**arguments): keyword binding against the signature.  An unexpected
\* keyword is reported before a missing positional argument.
Bind(f, a) ==
    LET unexpected == DOMAIN a \ Params(f)
        missing == Required(f) \ DOMAIN a
    IN  IF unexpected # {}
        THEN Raise(Exc("TypeError", f, "got an unexpected keyword argument",
                       unexpected))
        ELSE IF missing # {}
        THEN Raise(Exc("TypeError", f,
                       "missing required positional arguments", missing))
        ELSE Return([p \in Params(f) |->
                        IF p \in DOMAIN a THEN a[p] ELSE Defaults(f)[p]])

\* round(n / d) to the nearest integer, ties to even (Python round), d > 0.
RoundDiv(n, d) ==
    LET q == n \div d
        r == n % d
    IN  IF 2 * r < d THEN q
        ELSE IF 2 * r > d THEN q + 1
        ELSE IF q % 2 = 0 THEN q ELSE q + 1

\* An exception raised inside a calculator body.
BodyError(type, text) == Raise(Exc(type, "", text, {}))

\* The result of a calculator whose arithmetic is not spelled out here: a
\* pure function of the call, represented by the call itself.
ResultOf(f, b) == [returned_by |-> f, bound |-> b]

\* Parameters a body uses in arithmetic (number required), as strings
\* (.lower() is called) and as divisors.
NumParams(f) ==
    CASE f = "calculate_tdee" -> {"weight_kg", "height_cm", "age"}
      [] f = "calculate_macros" -> {"calories", "weight_kg"}
      [] f = "calculate_one_rep_max" -> {"weight", "reps"}
      [] f = "calculate_heart_rate_zones" -> {"age"}
      [] f = "calculate_hydration" -> {"weight_kg"}
      [] f = "generate_workout" -> {"duration_minutes"}
      [] f = "calculate_progressive_overload" ->
            {"current_weight", "current_reps", "target_reps"}
      [] f = "generate_meal_plan" ->
            {"calories", "protein_g", "carbs_g", "fat_g", "meals_per_day"}
      [] OTHER -> {}

StrParams(f) ==
    CASE f = "calculate_tdee" -> {"gender", "activity_level"}
      [] f = "calculate_hydration" -> {"activity_level"}
      [] f = "get_exercise_recommendations" -> {"muscle_group"}
      [] f = "get_nutrition_info" -> {"food_item"}
      [] f = "get_healthy_alternatives" -> {"food_item"}
      [] OTHER -> {}

Divisors(f) ==
    CASE f = "calculate_macros" -> {"calories"}
      [] f = "generate_meal_plan" -> {"meals_per_day"}
      [] OTHER -> {}

\* The numeric domains the calculators are applied to.
BmiWeights == 40..120
BmiHeights == 150..200
TdeeWeights == {55, 64, 80, 93}
TdeeHeights == {158, 165, 180, 191}
TdeeAges == {18, 30, 45, 60}
TdeeGenders == {"male", "female", "Male", "other"}
TdeeLevels ==
    {"sedentary", "light", "moderate", "active", "very_active", "MODERATE",
     "extreme"}
OneRmWeights == 20..200
OneRmReps == 1..15

\* weight_kg / (height_cm / 100) ** 2 is evaluated in binary floating
\* point.  Its result differs from the exact quotient by far less than the
\* distance between two different quotients and a threshold or a rounding
\* tie, so it only matters where the exact quotient lies on one: for these
\* inputs (all there are for weights in 39..122 and heights in 149..202)
\* the computed quotient is the smaller one: 1.6 ** 2 is
\* 2.5600000000000005.
QuotientBelowExact == {<<w, 160>> : w \in {48, 64, 80, 96, 112}}

calculate_bmi(b) ==
    LET w == b.weight_kg
        h == b.height_cm
    IN  IF ~IsNum(h) \/ ~IsNum(w)
        THEN BodyError("TypeError", "unsupported operand type(s)")
        ELSE IF h.num = 0
        THEN BodyError("ZeroDivisionError", "division by zero")
        ELSE LET n == 100000 * w.num      \* bmi * 10 = n / d
                 d == h.num * h.num
                 below == <<w.num, h.num>> \in QuotientBelowExact
                 \* bmi < k / 10
                 Less(k) == n < k * d \/ (below /\ n = k * d)
                 category ==
                     IF Less(185) THEN "Underweight"
                     ELSE IF Less(250) THEN "Normal weight"
                     ELSE IF Less(300) THEN "Overweight"
                     ELSE "Obese"
                 health_status ==
                     CASE category = "Underweight" ->
                              "Below healthy weight range"
                       [] category = "Normal weight" -> "Healthy weight range"
                       [] category = "Overweight" ->
                              "Above healthy weight range"
                       [] OTHER -> "Significantly above healthy weight range"
                 recommendation ==
                     CASE category = "Underweight" ->
                              "Consider consulting a nutritionist"
                       [] category = "Normal weight" ->
                              "Maintain your current weight"
                       [] category = "Overweight" ->
                              "Consider a balanced diet and regular exercise"
                       [] OTHER -> "Consult with healthcare professionals"
             IN  Return([bmi |-> [tenths |-> IF below /\ 2 * (n % d) = d
                                                 THEN n \div d
                                                 ELSE RoundDiv(n, d)],
                         category |-> category,
                         health_status |-> health_status,
                         recommendation |-> recommendation,
                         weight_kg |-> w,
                         height_cm |-> h])

\* str.lower() on the strings that occur here
Lower(str) ==
    CASE str = "Male" -> "male"
      [] str = "MODERATE" -> "moderate"
      [] str = "EXIT" -> "exit"
      [] str = "Q" -> "q"
      [] OTHER -> str

\* a multiplier table that has only its fallback
ActivityMultiplierFallbackOnly(level) == 1200

\* activity_multipliers.get(level, 1.2), in thousandths
ActivityMultiplier(level) ==
    CASE level = "sedentary" -> 1200
      [] level = "light" -> 1375
      [] level = "moderate" -> 1550
      [] level = "active" -> 1725
      [] level = "very_active" -> 1900
      [] OTHER -> 1200

\* round(x, 0) of the float x: the numbers here are whole
Whole(n) == Num(n)

calculate_tdee(b) ==
    IF ~IsStr(b.gender)
    THEN BodyError("AttributeError", "object has no attribute 'lower'")
    ELSE IF \E p \in {"weight_kg", "height_cm", "age"} : ~IsNum(b[p])
    THEN BodyError("TypeError", "unsupported operand type(s)")
    ELSE IF ~IsStr(b.activity_level)
    THEN BodyError("AttributeError", "object has no attribute 'lower'")
    ELSE LET \* bmr * 4: 6.25 * height_cm has quarters
             bmr4 == 40 * b.weight_kg.num + 25 * b.height_cm.num
                        - 20 * b.age.num
                        + (IF Lower(b.gender.str) = "male" THEN 20 ELSE -644)
             multiplier == ActivityMultiplier(Lower(b.activity_level.str))
             \* tdee * 4000
             tdee4000 == bmr4 * multiplier
             Rounded(delta) == Whole(RoundDiv(tdee4000 + 4000 * delta, 4000))
         IN  Return([bmr |-> Whole(RoundDiv(bmr4, 4)),
                     tdee |-> Rounded(0),
                     maintenance_calories |-> Rounded(0),
                     weight_loss |-> [mild |-> Rounded(-250),
                                      moderate |-> Rounded(-500),
                                      aggressive |-> Rounded(-750)],
                     weight_gain |-> [lean |-> Rounded(200),
                                      moderate |-> Rounded(350),
                                      bulk |-> Rounded(500)],
                     activity_level |-> b.activity_level])

\* f"{round(one_rm * low, 1)}-{round(one_rm * high, 1)}": the two products
\* are not evaluated here; the string is kept as what it is computed from
WeightRange(one_rm30, low, high) ==
    [one_rm_times_30 |-> one_rm30, low |-> low, high |-> high]

TrainingZones(one_rm30) ==
    [strength |-> [percentage |-> "80-95%",
                   weight_range |-> WeightRange(one_rm30, 80, 95),
                   reps |-> "1-5",
                   purpose |-> "Maximum strength development"],
     hypertrophy |-> [percentage |-> "65-85%",
                      weight_range |-> WeightRange(one_rm30, 65, 85),
                      reps |-> "6-12",
                      purpose |-> "Muscle growth"],
     endurance |-> [percentage |-> "50-70%",
                    weight_range |-> WeightRange(one_rm30, 50, 70),
                    reps |-> "12-20+",
                    purpose |-> "Muscular endurance"]]

\* the Epley formula applied to a single repetition as well
calculate_one_rep_max_always_epley(b) ==
    IF ~IsNum(b.weight) \/ ~IsNum(b.reps)
    THEN BodyError("TypeError", "unsupported operand type(s)")
    ELSE LET one_rm30 == b.weight.num * (30 + b.reps.num)
         IN  Return([one_rep_max |-> [tenths |-> RoundDiv(one_rm30, 3)],
                     training_zones |-> TrainingZones(one_rm30)])

calculate_one_rep_max(b) ==
    IF ~IsNum(b.weight) \/ ~IsNum(b.reps)
    THEN BodyError("TypeError", "unsupported operand type(s)")
    ELSE LET \* one_rm * 30
             one_rm30 == IF b.reps.num = 1 THEN 30 * b.weight.num
                         ELSE b.weight.num * (30 + b.reps.num)
         IN  Return([one_rep_max |-> [tenths |-> RoundDiv(one_rm30, 3)],
                     training_zones |-> TrainingZones(one_rm30)])

HipRequired == [fmt |-> "Hip measurement required for females"]

calculate_body_fat_navy(b) ==
    LET f == "calculate_body_fat_navy"
        male == b.gender = Str("male")
        used == IF male THEN {"waist_cm", "neck_cm", "height_cm"}
                        ELSE {"waist_cm", "neck_cm", "height_cm", "hip_cm"}
    IN  IF ~IsStr(b.gender)
        THEN BodyError("AttributeError", "object has no attribute 'lower'")
        ELSE IF ~male /\ b.hip_cm = PyNone
        THEN Return([error |-> HipRequired])
        ELSE IF \E p \in used : ~IsNum(b[p])
        THEN BodyError("TypeError", "unsupported operand type(s)")
        ELSE Return(ResultOf(f, b))

\* The body of calculator f on bound arguments b.
Body(f, b) ==
    IF f = "calculate_bmi" THEN calculate_bmi(b)
    ELSE IF f = "calculate_body_fat_navy" THEN calculate_body_fat_navy(b)
    ELSE IF f = "calculate_tdee" THEN calculate_tdee(b)
    ELSE IF f = "calculate_one_rep_max" THEN calculate_one_rep_max(b)
    ELSE IF \E p \in StrParams(f) : ~IsStr(b[p])
    THEN BodyError("AttributeError", "object has no attribute 'lower'")
    ELSE IF \E p \in NumParams(f) : ~IsNum(b[p])
    THEN BodyError("TypeError", "unsupported operand type(s)")
    ELSE IF \E p \in Divisors(f) : b[p].num = 0
    THEN BodyError("ZeroDivisionError", "division by zero")
    ELSE Return(ResultOf(f, b))

\* func(**arguments)
Call(f, a) ==
    LET bound == Bind(f, a)
    IN  IF bound.kind = "raise" THEN bound ELSE Body(f, bound.value)

(***************************************************************************)
(* tools/tool_registry.py                                                  *)
(***************************************************************************)
\* a mapping that registers every imported function
FunctionMapOfAllImports == [n \in Functions |-> n]

FUNCTION_MAP ==
    [n \in Functions \ {"calculate_meal_macros"} |-> n]

\* The catalog: per tool its name, the properties of its parameter schema
\* and the schema's required list.
\* a catalog entry whose required list was left empty
ToolNothingRequired(name, properties, required) ==
    [name |-> name, properties |-> properties, required |-> {}]

Tool(name, properties, required) ==
    [name |-> name, properties |-> properties, required |-> required]

TOOLS ==
    <<Tool("calculate_bmi", {"weight_kg", "height_cm"},
           {"weight_kg", "height_cm"}),
      Tool("calculate_tdee",
           {"weight_kg", "height_cm", "age", "gender", "activity_level"},
           {"weight_kg", "height_cm", "age", "gender", "activity_level"}),
      Tool("calculate_macros", {"calories", "goal", "weight_kg"},
           {"calories", "goal", "weight_kg"}),
      Tool("calculate_one_rep_max", {"weight", "reps"}, {"weight", "reps"}),
      Tool("calculate_body_fat_navy",
           {"gender", "waist_cm", "neck_cm", "height_cm", "hip_cm"},
           {"gender", "waist_cm", "neck_cm", "height_cm"}),
      Tool("calculate_heart_rate_zones", {"age"}, {"age"}),
      Tool("calculate_hydration", {"weight_kg", "activity_level"},
           {"weight_kg"}),
      Tool("generate_workout",
           {"goal", "level", "days_per_week", "equipment", "duration_minutes"},
           {"goal", "level", "days_per_week", "equipment"}),
      Tool("get_exercise_recommendations",
           {"muscle_group", "equipment", "level"},
           {"muscle_group", "equipment", "level"}),
      Tool("calculate_progressive_overload",
           {"current_weight", "current_reps", "target_reps",
            "progression_type"},
           {"current_weight", "current_reps", "target_reps"}),
      Tool("generate_meal_plan",
           {"calories", "protein_g", "carbs_g", "fat_g", "meals_per_day",
            "dietary_preference"},
           {"calories", "protein_g", "carbs_g", "fat_g"}),
      Tool("get_nutrition_info", {"food_item"}, {"food_item"}),
      Tool("get_healthy_alternatives", {"food_item"}, {"food_item"})>>

\* an except clause that names one class only
DispatcherCatchesValueError(e) == e.type = "ValueError"

\* except Exception as e (line 339)
DispatcherCatches(e) == e.type \in ExceptionClasses

\* a not-found error that does not say which name was asked for
NotFoundUnnamed(function_name) ==
    [error |-> [fmt |-> "Function not found", name |-> ""]]

NotFound(function_name) ==
    [error |-> [fmt |-> "Function '{}' not found", name |-> function_name]]

ExecutionFailed(e) ==
    [error |-> [fmt |-> "Function execution failed: {}", cause |-> StrOf(e)]]

\* a dispatcher that wraps what the calculator returned
execute_function_wrapping(function_name, arguments) ==
    IF function_name \in DOMAIN FUNCTION_MAP
    THEN LET func == FUNCTION_MAP[function_name]
             out == Call(func, arguments)
         IN  [invoked |-> <<func>>,
              result |-> IF out.kind = "return"
                         THEN Return([result |-> out.value])
                         ELSE IF DispatcherCatches(out.exc)
                         THEN Return(ExecutionFailed(out.exc))
                         ELSE Raise(out.exc)]
    ELSE [invoked |-> <<>>, result |-> Return(NotFound(function_name))]

\* What a call of execute_function does: the calculators it called, and
\* whether it returns a value or lets an exception out.
execute_function(function_name, arguments) ==
    IF function_name \in DOMAIN FUNCTION_MAP
    THEN LET func == FUNCTION_MAP[function_name]
             out == Call(func, arguments)
         IN  [invoked |-> <<func>>,
              result |-> IF out.kind = "return" THEN Return(out.value)
                         ELSE IF DispatcherCatches(out.exc)
                         THEN Return(ExecutionFailed(out.exc))
                         ELSE Raise(out.exc)]
    ELSE [invoked |-> <<>>, result |-> Return(NotFound(function_name))]

(***************************************************************************)
(* chainlit_app.py: messages, the external model's replies, JSON strings.  *)
(***************************************************************************)
SYSTEM_PROMPT == <<"You are Elicia, an expert health and fitness AI coach">>

SystemMessage == [role |-> "system", content |-> SYSTEM_PROMPT]
\* a user message stored under the system role
UserMessageAsSystem(text) == [role |-> "system", content |-> text]
UserMessage(text) == [role |-> "user", content |-> text]
AssistantMessage(text) == [role |-> "assistant", content |-> text]

\* content of a reply that carries tool calls (None)
NoContent == <<"None">>

\* response_message of a reply carrying tool calls
ResponseMessage(tcs) ==
    [role |-> "assistant", content |-> NoContent, tool_calls |-> tcs]

\* A JSON document as a string: json.dumps keeps the value, json.loads gives
\* it back; a string that is not JSON has no value to give back.
json_dumps(v) == [json |-> v]
MalformedJson == [text |-> "{'weight_kg': 80"]

json_loads(str) ==
    IF DOMAIN str = {"json"} THEN Return(str.json)
    ELSE Raise(Exc("JSONDecodeError", "", "Expecting property name", {}))

ToolMessage(tool_call, function_response) ==
    [tool_call_id |-> tool_call.id,
     role |-> "tool",
     name |-> tool_call.function.name,
     content |-> json_dumps(function_response)]

\* f"\n\n🔧 Using tool: **{function_name}**\n\n"
UsingTool(function_name) == <<"Using tool: ", function_name>>

ERROR_PREFIX == "Error: "
\* f"❌ Error: {str(e)}"
ErrorMessage(e) ==
    [kind |-> "error", prefix |-> ERROR_PREFIX, detail |-> StrOf(e)]
WelcomeMessage == [kind |-> "welcome"]

\* What the external model may answer (bounded samples).
UserTexts == {<<"hello">>}
ReplyTexts == {<<"reply">>}
\* delta.content of the n-th chunk: empty (or None), or a fragment of its own
FragmentNames == <<"f1", "f2", "f3", "f4">>
ChunkContents(n) == {<<>>, <<FragmentNames[n]>>}
ModelErrors == {Exc("APIError", "", "Connection error.", {})}

BmiArgs == [weight_kg |-> Num(80), height_cm |-> Num(180)]

\* The calls a reply may list at position i: a call that succeeds, a call
\* with undecodable arguments, and a call the dispatcher answers with an
\* error value (an unregistered name at odd positions, missing arguments at
\* even ones).
ToolCallShapes(i) ==
    {[name |-> "calculate_bmi", arguments |-> json_dumps(BmiArgs)],
     [name |-> "calculate_bmi", arguments |-> MalformedJson],
     IF i % 2 = 1
     THEN [name |-> "unknown_tool", arguments |-> json_dumps(EmptyArgs)]
     ELSE [name |-> "calculate_tdee", arguments |-> json_dumps(BmiArgs)]}

ToolCallId(n) == <<"call_", n>>

\* tool_calls of a reply: k >= 1 calls with pairwise distinct ids.
ToolCallReplies(k) ==
    {[i \in 1..k |-> [id |-> ToolCallId(i), function |-> shapes[i]]] :
        shapes \in {q \in [1..k -> UNION {ToolCallShapes(i) : i \in 1..k}] :
                       \A i \in 1..k : q[i] \in ToolCallShapes(i)}}

(***************************************************************************)
(* State.                                                                  *)
(***************************************************************************)
VARIABLES
    started,      \* session -> on_chat_start has run
    messages,     \* session -> the list stored under "messages"
    sent,         \* session -> messages sent with cl.Message(...).send()
    pc,           \* session -> position of the message handler
    pre,          \* session -> the stored list when the handler was entered
    tool_calls,   \* session -> tool_calls of the first reply
    idx,          \* session -> position of the for loop over tool_calls
    msg_content,  \* session -> msg.content of the placeholder
    chunks,       \* session -> chunk contents read from second_response
    requests,     \* session -> model requests of the latest handler run
    calls,        \* session -> execute_function calls of the latest run
    outcome,      \* session -> how the last handler run ended
    begun,        \* session -> handler runs entered
    completed,    \* session -> handler runs that reached line 161
    requested,    \* session -> tool calls the model has requested so far
    streamed,     \* session -> chunks read from streams so far
    d_pc,         \* dispatcher probe: position
    d_name,       \* dispatcher probe: function_name
    d_args,       \* dispatcher probe: arguments
    d_result,     \* dispatcher probe: value returned by execute_function
    tools,        \* the list the module global TOOLS is bound to
    runs,         \* task -> a handler run started for a delivered message
    agent         \* agent.py: main's position, what it read, called, printed

\* The server starts one task per delivered client message; a task runs
\* the handler of the message's session.
Tasks == {"t1", "t2"}

\* the locals of a handler run: where it is suspended, where its user
\* message sits in the history, the history's length when it returned,
\* tool_calls, the loop position, msg.content, fragments streamed
NewRun ==
    [pc |-> "new", at |-> 0, end |-> 0, tool_calls |-> <<>>, idx |-> 0,
     content |-> <<>>, nchunks |-> 0]

session_vars == <<started, messages, sent, pc, pre, tool_calls, idx,
                  msg_content, chunks, requests, calls, outcome, begun,
                  completed, requested, streamed>>
probe_vars == <<d_pc, d_name, d_args, d_result>>
vars == <<session_vars, probe_vars, tools, runs, agent>>

(***************************************************************************)
(* agent.py: the command-line agent.                                       *)
(***************************************************************************)
\* lines read from standard input per run of main
MaxInputs == 3

\* what input() may return: the typed line without its newline
InputLines == {"hello", "", "  ", "quit", "EXIT", " Q ", "quitter"}

\* str.strip() on the lines that occur here
Strip(line) ==
    CASE line = "  " -> ""
      [] line = " Q " -> "Q"
      [] OTHER -> line

QuitWords == {"quit", "exit", "q"}

AGENT_SYSTEM_PROMPT == "You are a helpful AI assistant."

\* the messages argument of chat_with_agent's create call
AgentRequest(prompt) ==
    <<[role |-> "system", content |-> AGENT_SYSTEM_PROMPT],
      UserMessage(prompt)>>

\* response.choices[0].message.content of the replies considered
AgentReplies == {"answer", "other answer"}

\* the returned string, as its parts: the content of the reply
ReplyString(content) == <<content>>

\* except Exception as e (line 32)
AgentCatches(e) == e.type \in ExceptionClasses

\* f"Error: {str(e)}"
ErrorString(e) == <<ERROR_PREFIX, e.text>>

BANNER == <<"AI Agent Started! (Type 'quit' to exit)">>
SEPARATOR == <<"--------------------------------------------------">>
GOODBYE == <<"Goodbye!">>

\* main has not been called
AgentInit ==
    [pc |-> "off", lines |-> <<>>, user_input |-> "", calls |-> <<>>,
     printed |-> <<>>]

RECURSIVE Sum(_, _)
Sum(f, S) ==
    IF S = {} THEN 0
    ELSE LET x == CHOOSE y \in S : TRUE IN f[x] + Sum(f, S \ {x})

\* start() that also records its welcome message in the history
InitialHistoryWithWelcome ==
    <<SystemMessage, AssistantMessage(<<"Welcome">>)>>

\* the list start() stores
InitialHistory == <<SystemMessage>>

SessionInit ==
    /\ started = [s \in Sessions |-> FALSE]
    /\ messages = [s \in Sessions |-> <<>>]
    /\ sent = [s \in Sessions |-> <<>>]
    /\ pc = [s \in Sessions |-> "idle"]
    /\ pre = [s \in Sessions |-> <<>>]
    /\ tool_calls = [s \in Sessions |-> <<>>]
    /\ idx = [s \in Sessions |-> 0]
    /\ msg_content = [s \in Sessions |-> <<>>]
    /\ chunks = [s \in Sessions |-> <<>>]
    /\ requests = [s \in Sessions |-> <<>>]
    /\ calls = [s \in Sessions |-> <<>>]
    /\ outcome = [s \in Sessions |-> "none"]
    /\ begun = [s \in Sessions |-> 0]
    /\ completed = [s \in Sessions |-> 0]
    /\ requested = [s \in Sessions |-> 0]
    /\ streamed = [s \in Sessions |-> 0]
    /\ tools = TOOLS
    /\ runs = [t \in Tasks |-> NewRun]
    /\ agent = AgentInit

NoDispatch == [invoked |-> <<>>, result |-> [kind |-> "none"]]

ProbeIdle ==
    /\ d_pc = "off"
    /\ d_name = ""
    /\ d_args = EmptyArgs
    /\ d_result = NoDispatch

Init == SessionInit /\ ProbeIdle

(***************************************************************************)
(* on_chat_start                                                           *)
(***************************************************************************)
\* a start() that stores one list, shared by all sessions
start_shared_list(s) ==
    /\ ~started[s]
    /\ started' = [started EXCEPT ![s] = TRUE]
    /\ messages' = [t \in Sessions |-> InitialHistory]
    /\ sent' = [sent EXCEPT ![s] = Append(@, WelcomeMessage)]
    /\ UNCHANGED <<pc, pre, tool_calls, idx, msg_content, chunks, requests,
                   calls, outcome, begun, completed, requested, streamed,
                   probe_vars, tools, runs, agent>>

start(s) ==
    /\ ~started[s]
    /\ started' = [started EXCEPT ![s] = TRUE]
    /\ messages' = [messages EXCEPT ![s] = InitialHistory]
    /\ sent' = [sent EXCEPT ![s] = Append(@, WelcomeMessage)]
    /\ UNCHANGED <<pc, pre, tool_calls, idx, msg_content, chunks, requests,
                   calls, outcome, begun, completed, requested, streamed,
                   probe_vars, tools, runs, agent>>

(***************************************************************************)
(* on_message.  `messages` in the handler is the stored list itself, so    *)
(* every append is an append to the session's list; the final              *)
(* cl.user_session.set("messages", messages) stores the same list again.   *)
(***************************************************************************)

\* the request of lines 104-109 and of lines 139-143
\* a first request that offers the first tool of the catalog only
FirstRequestPartialCatalog(s) ==
    [messages |-> messages[s], tools |-> SubSeq(tools, 1, 1),
     tool_choice |-> "auto", stream |-> FALSE]
FirstRequest(s) ==
    [messages |-> messages[s], tools |-> tools, tool_choice |-> "auto",
     stream |-> FALSE]
\* a post-tool request that sends the messages of this turn only
SecondRequestThisTurnOnly(s) ==
    [messages |-> SubSeq(messages[s], Len(pre[s]) + 1, Len(messages[s])),
     tools |-> <<>>, tool_choice |-> "unset", stream |-> TRUE]
SecondRequest(s) ==
    [messages |-> messages[s], tools |-> <<>>, tool_choice |-> "unset",
     stream |-> TRUE]

\* the handler returns: its locals are gone
Returns(s) ==
    /\ pc' = [pc EXCEPT ![s] = "idle"]
    /\ pre' = [pre EXCEPT ![s] = <<>>]
    /\ tool_calls' = [tool_calls EXCEPT ![s] = <<>>]
    /\ idx' = [idx EXCEPT ![s] = 0]
    /\ msg_content' = [msg_content EXCEPT ![s] = <<>>]
    /\ chunks' = [chunks EXCEPT ![s] = <<>>]

\* an except clause that names one class only
HandlerCatchesValueError(e) == e.type = "ValueError"

\* except Exception as e (line 163)
HandlerCatches(e) == e.type \in ExceptionClasses

\* An exception raised inside the try block: if the except clause catches
\* it, one error message is sent; either way the handler is left.
Fails(s, e, how) ==
    /\ IF HandlerCatches(e)
       THEN /\ sent' = [sent EXCEPT ![s] = Append(@, ErrorMessage(e))]
            /\ outcome' = [outcome EXCEPT ![s] = how]
       ELSE /\ sent' = sent
            /\ outcome' = [outcome EXCEPT ![s] = "escaped"]
    /\ Returns(s)

\* appends that are forgotten
AppendReplyLost(history, text) == history
AppendToolResultUnlessError(history, tool_call, function_response) ==
    IF "error" \in DOMAIN function_response THEN history
    ELSE Append(history, ToolMessage(tool_call, function_response))
AppendToolRequestLost(history, tcs) == history

\* the appends to the session's list
AppendUser(history, text) == Append(history, UserMessage(text))
AppendReply(history, text) == Append(history, AssistantMessage(text))
AppendToolRequest(history, tcs) == Append(history, ResponseMessage(tcs))
AppendToolResult(history, tool_call, function_response) ==
    Append(history, ToolMessage(tool_call, function_response))
\* a final append that keeps only the system prompt and the answer
AppendFinalReplacing(history, final_content) ==
    <<history[1], AssistantMessage(final_content)>>
AppendFinal(history, final_content) ==
    Append(history, AssistantMessage(final_content))

\* lines 93-100: the user message is appended, the placeholder is sent
main_enter(s, text) ==
    /\ started[s]
    /\ pc[s] = "idle"
    /\ Sum(begun, Sessions) < MaxTurns
    /\ pre' = [pre EXCEPT ![s] = messages[s]]
    /\ messages' = [messages EXCEPT ![s] = AppendUser(@, text)]
    /\ outcome' = [outcome EXCEPT ![s] = "running"]
    /\ begun' = [begun EXCEPT ![s] = @ + 1]
    /\ pc' = [pc EXCEPT ![s] = "first_request"]
    /\ requests' = [requests EXCEPT ![s] = <<>>]
    /\ calls' = [calls EXCEPT ![s] = <<>>]
    /\ UNCHANGED <<started, sent, tool_calls, idx, msg_content, chunks,
                   completed, requested, streamed, probe_vars, tools, runs, agent>>

\* lines 104-109 raise
first_request_fails(s, e) ==
    /\ pc[s] = "first_request"
    /\ requests' = [requests EXCEPT ![s] = Append(@, FirstRequest(s))]
    /\ Fails(s, e, "failed_initial")
    /\ UNCHANGED <<started, messages, calls, begun, completed, requested,
                   streamed, probe_vars, tools, runs, agent>>

\* lines 104-115, 153-161: the reply has no tool calls
reply_text(s, text) ==
    /\ pc[s] = "first_request"
    /\ requests' = [requests EXCEPT ![s] = Append(@, FirstRequest(s))]
    /\ messages' = [messages EXCEPT ![s] = AppendReply(@, text)]
    /\ completed' = [completed EXCEPT ![s] = @ + 1]
    /\ outcome' = [outcome EXCEPT ![s] = "completed"]
    /\ Returns(s)
    /\ UNCHANGED <<started, sent, calls, begun, requested, streamed,
                   probe_vars, tools, runs, agent>>

\* lines 104-117: the reply carries tool calls
reply_tool_calls(s, tcs) ==
    /\ pc[s] = "first_request"
    /\ Sum(requested, Sessions) + Len(tcs) <= MaxToolCalls
    /\ requests' = [requests EXCEPT ![s] = Append(@, FirstRequest(s))]
    /\ messages' = [messages EXCEPT ![s] = AppendToolRequest(@, tcs)]
    /\ tool_calls' = [tool_calls EXCEPT ![s] = tcs]
    /\ idx' = [idx EXCEPT ![s] = 1]
    /\ requested' = [requested EXCEPT ![s] = @ + Len(tcs)]
    /\ pc' = [pc EXCEPT ![s] = "tools"]
    /\ UNCHANGED <<started, sent, pre, msg_content, chunks, calls, outcome,
                   begun, completed, streamed, probe_vars, tools, runs, agent>>

\* lines 120-136: one iteration of the for loop
tool_step(s) ==
    /\ pc[s] = "tools"
    /\ LET tool_call == tool_calls[s][idx[s]]
           function_name == tool_call.function.name
           function_args == json_loads(tool_call.function.arguments)
           dispatch == execute_function(function_name, function_args.value)
           function_response == dispatch.result
       IN  IF function_args.kind = "raise"
           THEN /\ Fails(s, function_args.exc, "failed_arguments")
                /\ UNCHANGED <<messages, calls>>
           ELSE IF function_response.kind = "raise"
           THEN /\ Fails(s, function_response.exc, "failed_dispatch")
                /\ calls' = [calls EXCEPT ![s] =
                                Append(@, [name |-> function_name,
                                           arguments |-> function_args.value,
                                           at |-> Len(messages[s])])]
                /\ UNCHANGED messages
           ELSE /\ msg_content' = [msg_content EXCEPT
                                      ![s] = @ \o UsingTool(function_name)]
                /\ calls' = [calls EXCEPT ![s] =
                                Append(@, [name |-> function_name,
                                           arguments |-> function_args.value,
                                           at |-> Len(messages[s])])]
                /\ messages' = [messages EXCEPT ![s] =
                                   AppendToolResult(@, tool_call,
                                       function_response.value)]
                /\ idx' = [idx EXCEPT ![s] = @ + 1]
                /\ pc' = [pc EXCEPT ![s] =
                             IF idx[s] = Len(tool_calls[s])
                             THEN "second_request" ELSE "tools"]
                /\ UNCHANGED <<sent, outcome, pre, tool_calls, chunks>>
    /\ UNCHANGED <<started, requests, begun, completed, requested, streamed,
                   probe_vars, tools, runs, agent>>

\* lines 139-143 raise
second_request_fails(s, e) ==
    /\ pc[s] = "second_request"
    /\ requests' = [requests EXCEPT ![s] = Append(@, SecondRequest(s))]
    /\ Fails(s, e, "failed_post_tool")
    /\ UNCHANGED <<started, messages, calls, begun, completed, requested,
                   streamed, probe_vars, tools, runs, agent>>

\* lines 139-143 return the stream
second_request(s) ==
    /\ pc[s] = "second_request"
    /\ requests' = [requests EXCEPT ![s] = Append(@, SecondRequest(s))]
    /\ pc' = [pc EXCEPT ![s] = "stream"]
    /\ UNCHANGED <<started, messages, sent, pre, tool_calls, idx,
                   msg_content, chunks, calls, outcome, begun, completed,
                   requested, streamed, probe_vars, tools, runs, agent>>

\* lines 146-148: one chunk; empty delta content is skipped
stream_chunk(s, content) ==
    /\ pc[s] = "stream"
    /\ Sum(streamed, Sessions) < MaxChunks
    /\ streamed' = [streamed EXCEPT ![s] = @ + 1]
    /\ chunks' = [chunks EXCEPT ![s] = Append(@, content)]
    /\ msg_content' = [msg_content EXCEPT ![s] =
                          IF content # <<>> THEN @ \o content ELSE @]
    /\ UNCHANGED <<started, messages, sent, pc, pre, tool_calls, idx,
                   requests, calls, outcome, begun, completed, requested,
                   probe_vars, tools, runs, agent>>

\* a failing stream whose text so far is stored as the answer
stream_fails_keeping_partial(s, e) ==
    /\ pc[s] = "stream"
    /\ messages' = [messages EXCEPT ![s] = AppendFinal(@, msg_content[s])]
    /\ Fails(s, e, "failed_stream")
    /\ UNCHANGED <<started, requests, calls, begun, completed,
                   requested, streamed, probe_vars, tools, runs, agent>>

\* line 146 raises while iterating
stream_fails(s, e) ==
    /\ pc[s] = "stream"
    /\ Fails(s, e, "failed_stream")
    /\ UNCHANGED <<started, messages, requests, calls, begun, completed,
                   requested, streamed, probe_vars, tools, runs, agent>>

\* lines 150-161: the stream is exhausted
stream_end(s) ==
    /\ pc[s] = "stream"
    /\ LET final_content == msg_content[s]
       IN  messages' = [messages EXCEPT ![s] = AppendFinal(@, final_content)]
    /\ completed' = [completed EXCEPT ![s] = @ + 1]
    /\ outcome' = [outcome EXCEPT ![s] = "completed"]
    /\ Returns(s)
    /\ UNCHANGED <<started, sent, requests, calls, begun, requested, streamed,
                   probe_vars, tools, runs, agent>>

Next ==
    \E s \in Sessions :
        \/ start(s)
        \/ \E text \in UserTexts : main_enter(s, text)
        \/ \E e \in ModelErrors : first_request_fails(s, e)
        \/ \E text \in ReplyTexts : reply_text(s, text)
        \/ \E k \in 1..MaxToolCalls :
              \E tcs \in ToolCallReplies(k) : reply_tool_calls(s, tcs)
        \/ tool_step(s)
        \/ \E e \in ModelErrors : second_request_fails(s, e)
        \/ second_request(s)
        \/ \E content \in ChunkContents(Len(chunks[s]) + 1) :
              stream_chunk(s, content)
        \/ \E e \in ModelErrors : stream_fails(s, e)
        \/ stream_end(s)

Spec == Init /\ [][Next]_vars

\* The handler's code between two model events runs without waiting for
\* anything but the model: a model call returns or raises, and a stream
\* ends or raises.
HandlerStep(s) ==
    \/ \E e \in ModelErrors : first_request_fails(s, e)
    \/ \E text \in ReplyTexts : reply_text(s, text)
    \/ \E k \in 1..MaxToolCalls :
          \E tcs \in ToolCallReplies(k) : reply_tool_calls(s, tcs)
    \/ tool_step(s)
    \/ \E e \in ModelErrors : second_request_fails(s, e)
    \/ second_request(s)
    \/ \E e \in ModelErrors : stream_fails(s, e)
    \/ stream_end(s)

SpecFair == Spec /\ \A s \in Sessions : WF_vars(HandlerStep(s))

(***************************************************************************)
(* Delivery as the server does it.  Spec above delivers a message to a     *)
(* session only when the session's handler has returned.  The handler      *)
(* itself holds no lock and checks no flag: it is a coroutine that gives    *)
(* up control at its awaits (lines 100, 125, 148, 156, 158, 164), and the   *)
(* model calls in between are synchronous.  Here every message of one       *)
(* session is handled by a task of its own, started whenever the message    *)
(* arrives; a step is the code a task runs from one await to the next.      *)
(***************************************************************************)
OverlapSession == "s1"

\* what the model does next where the handler waits for it at the end of
\* the loop or in the stream: it raises, the stream ends, or a chunk with
\* content arrives (chunks without content are skipped without an await)
StreamEvents ==
    {[kind |-> "raise", exc |-> e] : e \in ModelErrors}
        \cup {[kind |-> "end"], [kind |-> "fragment"]}

\* the run of task t has returned with history h
Finished(r, h) == [NewRun EXCEPT !.pc = "done", !.at = r.at, !.end = Len(h)]

\* one step of task t: the session's list, what was sent, the task's locals
TaskUpdate(t, h, out, r) ==
    /\ messages' = [messages EXCEPT ![OverlapSession] = h]
    /\ sent' = [sent EXCEPT ![OverlapSession] = out]
    /\ runs' = [runs EXCEPT ![t] = r]
    /\ UNCHANGED <<started, pc, pre, tool_calls, idx, msg_content, chunks,
                   requests, calls, outcome, begun, completed, requested,
                   streamed, probe_vars, tools, agent>>

\* lines 163-164 in task t
TaskFails(t, h, e) ==
    TaskUpdate(t, h,
               IF HandlerCatches(e)
               THEN Append(sent[OverlapSession], ErrorMessage(e))
               ELSE sent[OverlapSession],
               Finished(runs[t], h))

\* lines 121-125 for call i: decode the arguments, stream the banner, wait
TaskLoopHead(t, h, r, i) ==
    LET tool_call == r.tool_calls[i]
        function_args == json_loads(tool_call.function.arguments)
    IN  IF function_args.kind = "raise"
        THEN TaskFails(t, h, function_args.exc)
        ELSE TaskUpdate(t, h, sent[OverlapSession],
                 [r EXCEPT !.pc = "tool", !.idx = i,
                           !.content = @ \o UsingTool(tool_call.function.name)])

\* lines 139-152: the post-tool request and its stream up to the next await
TaskStream(t, h, r, ev) ==
    IF ev.kind = "raise" THEN TaskFails(t, h, ev.exc)
    ELSE IF ev.kind = "end"
    THEN LET final == AppendFinal(h, r.content)
         IN  TaskUpdate(t, final, sent[OverlapSession], Finished(r, final))
    ELSE /\ r.nchunks < MaxChunks
         /\ TaskUpdate(t, h, sent[OverlapSession],
                [r EXCEPT !.pc = "stream", !.nchunks = @ + 1,
                          !.content = @ \o <<FragmentNames[r.nchunks + 1]>>])

\* lines 93-100: up to `await msg.send()`
task_enter(t, text) ==
    /\ started[OverlapSession]
    /\ runs[t].pc = "new"
    /\ LET h == AppendUser(messages[OverlapSession], text)
       IN  TaskUpdate(t, h, sent[OverlapSession],
                      [runs[t] EXCEPT !.pc = "placeholder", !.at = Len(h)])

\* lines 104-109 raise
task_first_request_fails(t, e) ==
    /\ runs[t].pc = "placeholder"
    /\ TaskFails(t, messages[OverlapSession], e)

\* lines 104-115, 153-161
task_reply_text(t, text) ==
    /\ runs[t].pc = "placeholder"
    /\ LET h == AppendReply(messages[OverlapSession], text)
       IN  TaskUpdate(t, h, sent[OverlapSession], Finished(runs[t], h))

\* lines 104-125: the reply carries tool calls; up to the first banner
task_reply_tool_calls(t, tcs) ==
    /\ runs[t].pc = "placeholder"
    /\ TaskLoopHead(t, AppendToolRequest(messages[OverlapSession], tcs),
                    [runs[t] EXCEPT !.tool_calls = tcs], 1)

\* lines 128-136 for the call whose banner was streamed, then the head of
\* the next iteration or, after the last call, the post-tool request
task_tool(t, ev) ==
    /\ runs[t].pc = "tool"
    /\ LET r == runs[t]
           tool_call == r.tool_calls[r.idx]
           function_args == json_loads(tool_call.function.arguments)
           function_response ==
               execute_function(tool_call.function.name,
                                function_args.value).result
           h == AppendToolResult(messages[OverlapSession], tool_call,
                                 function_response.value)
       IN  IF function_response.kind = "raise"
           THEN TaskFails(t, messages[OverlapSession], function_response.exc)
           ELSE IF r.idx < Len(r.tool_calls)
           THEN /\ ev.kind = "end"      \* no model event is read here
                /\ TaskLoopHead(t, h, r, r.idx + 1)
           ELSE TaskStream(t, h, r, ev)

\* lines 146-152 from the await of line 148
task_stream(t, ev) ==
    /\ runs[t].pc = "stream"
    /\ TaskStream(t, messages[OverlapSession], runs[t], ev)

NextOverlap ==
    \/ start(OverlapSession)
    \/ \E t \in Tasks :
          \/ \E text \in UserTexts : task_enter(t, text)
          \/ \E e \in ModelErrors : task_first_request_fails(t, e)
          \/ \E text \in ReplyTexts : task_reply_text(t, text)
          \/ \E k \in 1..MaxToolCalls :
                \E tcs \in ToolCallReplies(k) : task_reply_tool_calls(t, tcs)
          \/ \E ev \in StreamEvents : task_tool(t, ev)
          \/ \E ev \in StreamEvents : task_stream(t, ev)

SpecOverlap == Init /\ [][NextOverlap]_vars

(***************************************************************************)
(* The dispatcher on its own: execute_function applied to every name of    *)
(* ProbeNames and every argument mapping of ProbeArgs.                     *)
(***************************************************************************)
ValidValue(p) ==
    CASE p = "weight_kg" -> Num(80)
      [] p = "height_cm" -> Num(180)
      [] p = "age" -> Num(30)
      [] p = "gender" -> Str("male")
      [] p = "activity_level" -> Str("moderate")
      [] p = "calories" -> Num(2000)
      [] p = "goal" -> Str("muscle_gain")
      [] p = "weight" -> Num(100)
      [] p = "reps" -> Num(5)
      [] p = "waist_cm" -> Num(85)
      [] p = "neck_cm" -> Num(38)
      [] p = "hip_cm" -> Num(95)
      [] p = "level" -> Str("beginner")
      [] p = "days_per_week" -> Num(4)
      [] p = "equipment" -> Arr(<<"dumbbells">>)
      [] p = "duration_minutes" -> Num(45)
      [] p = "muscle_group" -> Str("chest")
      [] p = "current_weight" -> Num(60)
      [] p = "current_reps" -> Num(8)
      [] p = "target_reps" -> Num(10)
      [] p = "progression_type" -> Str("weight")
      [] p = "protein_g" -> Num(150)
      [] p = "carbs_g" -> Num(200)
      [] p = "fat_g" -> Num(60)
      [] p = "meals_per_day" -> Num(4)
      [] p = "dietary_preference" -> Str("balanced")
      [] p = "food_item" -> Str("banana")
      [] p = "ingredients" -> Arr(<<>>)

ValidArgs(f) == [p \in Params(f) |-> ValidValue(p)]

ProbeNames == Functions \cup {"unknown_tool", ""}

ProbeArgs ==
    UNION {{ValidArgs(f), With(ValidArgs(f), "unknown_key", Num(1))}
             \cup {Drop(ValidArgs(f), p) : p \in Params(f)} : f \in Functions}
    \cup {EmptyArgs,
          With(BmiArgs, "weight_kg", Str("eighty")),
          With(BmiArgs, "height_cm", Num(0)),
          With(ValidArgs("calculate_body_fat_navy"), "gender", Str("female")),
          Drop(With(ValidArgs("calculate_body_fat_navy"), "gender",
                    Str("female")), "hip_cm")}

InitDispatch ==
    /\ SessionInit
    /\ d_pc = "ready"
    /\ d_name \in ProbeNames
    /\ d_args \in ProbeArgs
    /\ d_result = NoDispatch

dispatch ==
    /\ d_pc = "ready"
    /\ d_result' = execute_function(d_name, d_args)
    /\ d_pc' = "done"
    /\ UNCHANGED <<d_name, d_args, session_vars, tools, runs, agent>>

NextDispatch == dispatch

SpecDispatch == InitDispatch /\ [][NextDispatch]_vars

(***************************************************************************)
(* The dispatcher applied to the numeric calculators over their domains.   *)
(***************************************************************************)
CalcProbes ==
    {<<"calculate_bmi", [weight_kg |-> Num(w), height_cm |-> Num(h)]>> :
        w \in BmiWeights, h \in BmiHeights}
    \cup {<<"calculate_tdee",
            [weight_kg |-> Num(w), height_cm |-> Num(h), age |-> Num(a),
             gender |-> Str(g), activity_level |-> Str(l)]>> :
            w \in TdeeWeights, h \in TdeeHeights, a \in TdeeAges,
            g \in TdeeGenders, l \in TdeeLevels}
    \cup {<<"calculate_one_rep_max", [weight |-> Num(w), reps |-> Num(r)]>> :
            w \in OneRmWeights, r \in OneRmReps}

InitCalc ==
    /\ SessionInit
    /\ d_pc = "ready"
    /\ \E probe \in CalcProbes : d_name = probe[1] /\ d_args = probe[2]
    /\ d_result = NoDispatch

SpecCalc == InitCalc /\ [][NextDispatch]_vars

(***************************************************************************)
(* agent.py: main and chat_with_agent.                                     *)
(***************************************************************************)
AgentStep(a) ==
    /\ agent' = a
    /\ UNCHANGED <<session_vars, probe_vars, tools, runs>>

\* lines 38-39
main_start ==
    /\ agent.pc = "off"
    /\ AgentStep([agent EXCEPT !.pc = "input",
                                !.printed = @ \o <<BANNER, SEPARATOR>>])

\* line 42: input() returns a line
Read(line) ==
    [agent EXCEPT !.lines = Append(@, line), !.user_input = Strip(line)]

\* lines 42-46: a quit word ends the loop
main_quit(line) ==
    /\ agent.pc = "input"
    /\ Len(agent.lines) < MaxInputs
    /\ Lower(Strip(line)) \in QuitWords
    /\ AgentStep([Read(line) EXCEPT !.pc = "ended",
                                    !.printed = Append(@, GOODBYE)])

\* lines 42-49: nothing typed, back to input()
main_empty(line) ==
    /\ agent.pc = "input"
    /\ Len(agent.lines) < MaxInputs
    /\ Lower(Strip(line)) \notin QuitWords
    /\ Strip(line) = ""
    /\ AgentStep(Read(line))

\* lines 42-52, 23-30: the prompt is printed and the request is made
main_ask(line) ==
    /\ agent.pc = "input"
    /\ Len(agent.lines) < MaxInputs
    /\ Lower(Strip(line)) \notin QuitWords
    /\ Strip(line) # ""
    /\ AgentStep([Read(line) EXCEPT
            !.pc = "call",
            !.printed = Append(@, <<"Agent: ">>),
            !.calls = Append(@, [prompt |-> Strip(line),
                                 request |-> AgentRequest(Strip(line)),
                                 ok |-> TRUE,
                                 returned |-> <<>>])])

\* line 42: input() raises at the end of standard input; main has no
\* handler for it
input_raises ==
    /\ agent.pc = "input"
    /\ AgentStep([agent EXCEPT !.pc = "raised"])

\* chat_with_agent returns r to line 52, line 53 prints it
ChatReturns(succeeded, r) ==
    AgentStep([agent EXCEPT
        !.pc = "input",
        !.calls[Len(agent.calls)].ok = succeeded,
        !.calls[Len(agent.calls)].returned = r,
        !.printed = Append(@, r)])

\* lines 24-31: the create call returns
chat_returns(content) ==
    /\ agent.pc = "call"
    /\ ChatReturns(TRUE, ReplyString(content))

\* lines 24-33: the create call raises
chat_fails(e) ==
    /\ agent.pc = "call"
    /\ IF AgentCatches(e)
       THEN ChatReturns(FALSE, ErrorString(e))
       ELSE AgentStep([agent EXCEPT !.pc = "raised"])

NextAgent ==
    \/ main_start
    \/ \E line \in InputLines : main_quit(line)
    \/ \E line \in InputLines : main_empty(line)
    \/ \E line \in InputLines : main_ask(line)
    \/ input_raises
    \/ \E content \in AgentReplies : chat_returns(content)
    \/ \E e \in ModelErrors : chat_fails(e)

SpecAgent == Init /\ [][NextAgent]_vars

(***************************************************************************)
(* Properties.                                                             *)
(***************************************************************************)
IsToolRequest(m) == m.role = "assistant" /\ "tool_calls" \in DOMAIN m
IsText(m, role) == m.role = role /\ DOMAIN m = {"role", "content"}

\* session s leaves its handler in this step
HandlerReturns(s) == pc[s] # "idle" /\ pc'[s] = "idle"

\* C1: after start() and before any user turn, the session's history is
\* exactly one message, the system prompt with role system, whatever the
\* other sessions have done.
C1_StartGivesOnlySystemPrompt ==
    \A s \in Sessions :
        started[s] /\ begun[s] = 0 =>
            /\ Len(messages[s]) = 1
            /\ messages[s][1].role = "system"
            /\ messages[s][1].content = SYSTEM_PROMPT
            /\ DOMAIN messages[s][1] = {"role", "content"}

C1_Witness ==
    \E s, t \in Sessions :
        /\ s # t
        /\ started[s] /\ begun[s] = 0 /\ Len(messages[s]) = 1
        /\ completed[t] >= 1 /\ Len(messages[t]) >= 3

\* C2: after N completed user turns in which no tool call was requested,
\* the history is the system message followed by N (user, assistant) pairs,
\* 1 + 2N messages.
C2_NoToolTurnsLength ==
    \A s \in Sessions :
        (started[s] /\ pc[s] = "idle" /\ completed[s] = begun[s]
            /\ requested[s] = 0) =>
            /\ Len(messages[s]) = 1 + 2 * begun[s]
            /\ IsText(messages[s][1], "system")
            /\ \A i \in 1..begun[s] :
                  /\ IsText(messages[s][2 * i], "user")
                  /\ IsText(messages[s][2 * i + 1], "assistant")

C2_Witness ==
    \E s \in Sessions :
        /\ pc[s] = "idle" /\ begun[s] = 2 /\ completed[s] = 2
        /\ requested[s] = 0 /\ Len(messages[s]) = 5

\* the k messages after position n of history answer the calls tcs, one to
\* one and in order
ToolResultsMatch(history, n, tcs) ==
    /\ Len(history) >= n + Len(tcs)
    /\ \A i \in 1..Len(tcs) :
          /\ history[n + i].role = "tool"
          /\ history[n + i].tool_call_id = tcs[i].id
    /\ \A i \in (n + 1)..Len(history) :
          history[i].role = "tool" => i <= n + Len(tcs)

\* C3: in every turn whose first reply carries k >= 1 tool calls, exactly k
\* tool-result messages are appended after the assistant message, the i-th
\* carrying the id of the i-th call.
C3_EveryToolTurnAppendsKResults ==
    [][\A s \in Sessions :
          (HandlerReturns(s) /\ tool_calls[s] # <<>>) =>
              ToolResultsMatch(messages'[s], Len(pre[s]) + 2, tool_calls[s])]_vars

\* C4: a completed tool-requesting turn with k tool calls appends k + 3
\* messages: user, assistant with the k tool_calls, k tool results in call
\* order, one final assistant text; what was there before stays in front.
C4_CompletedToolTurnAppends ==
    [][\A s \in Sessions :
          (HandlerReturns(s) /\ outcome'[s] = "completed"
              /\ tool_calls[s] # <<>>) =>
              LET n == Len(pre[s])
                  k == Len(tool_calls[s])
                  after == messages'[s]
              IN  /\ Len(after) = n + k + 3
                  /\ SubSeq(after, 1, n) = pre[s]
                  /\ IsText(after[n + 1], "user")
                  /\ IsToolRequest(after[n + 2])
                  /\ after[n + 2].tool_calls = tool_calls[s]
                  /\ ToolResultsMatch(after, n + 2, tool_calls[s])
                  /\ IsText(after[n + k + 3], "assistant")]_vars

C4_Witness ==
    \E s \in Sessions :
        /\ pc[s] = "idle" /\ outcome[s] = "completed" /\ begun[s] = 1
        /\ Len(messages[s]) = 6
        /\ IsText(messages[s][1], "system")
        /\ IsText(messages[s][2], "user")
        /\ IsToolRequest(messages[s][3])
        /\ Len(messages[s][3].tool_calls) = 2
        /\ messages[s][4].role = "tool"
        /\ messages[s][4].tool_call_id = messages[s][3].tool_calls[1].id
        /\ messages[s][5].role = "tool"
        /\ messages[s][5].tool_call_id = messages[s][3].tool_calls[2].id
        /\ IsText(messages[s][6], "assistant")

\* C5: for a name that is no key of FUNCTION_MAP, whatever the arguments,
\* execute_function returns an error value that says the function was not
\* found and carries the name; it raises nothing and calls no calculator.
C5_UnknownNameNotFound ==
    (d_pc = "done" /\ d_name \notin DOMAIN FUNCTION_MAP) =>
        /\ d_result.result.kind = "return"
        /\ DOMAIN d_result.result.value = {"error"}
        /\ d_result.result.value.error.fmt = "Function '{}' not found"
        /\ d_result.result.value.error.name = d_name
        /\ d_result.invoked = <<>>

C5_Witness ==
    /\ d_pc = "done"
    /\ d_name = "unknown_tool"
    /\ d_args = BmiArgs
    /\ d_result.result.kind = "return"
    /\ d_result.result.value.error.name = "unknown_tool"

\* the dispatch returned an execution-failed error value with a cause
IsExecutionFailed(d) ==
    /\ d.result.kind = "return"
    /\ DOMAIN d.result.value = {"error"}
    /\ DOMAIN d.result.value.error = {"fmt", "cause"}
    /\ d.result.value.error.fmt = "Function execution failed: {}"

\* the required list of the catalog entry called name
SchemaRequired(name) ==
    (CHOOSE i \in DOMAIN TOOLS : TOOLS[i].name = name)

\* C6 as stated: for a registered name, arguments that lack a parameter the
\* tool's schema requires, or hold a key the implementation does not accept,
\* give an execution-failed error value.
C6_SchemaRequiredMissingFails ==
    (/\ d_pc = "done"
     /\ d_name \in DOMAIN FUNCTION_MAP
     /\ \/ TOOLS[SchemaRequired(d_name)].required \ DOMAIN d_args # {}
        \/ DOMAIN d_args \ Params(FUNCTION_MAP[d_name]) # {})
        => IsExecutionFailed(d_result)

\* C6 amended: for a registered name, arguments that lack a parameter the
\* implementation declares without a default, or hold a key that is no
\* parameter of the implementation, give an execution-failed error value
\* with a cause; nothing is raised.
C6_SignatureMismatchFails ==
    (/\ d_pc = "done"
     /\ d_name \in DOMAIN FUNCTION_MAP
     /\ \/ Required(FUNCTION_MAP[d_name]) \ DOMAIN d_args # {}
        \/ DOMAIN d_args \ Params(FUNCTION_MAP[d_name]) # {})
        => /\ IsExecutionFailed(d_result)
           /\ d_result.result.value.error.cause.func = FUNCTION_MAP[d_name]
           /\ d_result.result.value.error.cause.keys # {}

C6_Witness ==
    /\ d_pc = "done"
    /\ d_name = "calculate_tdee"
    /\ d_args = BmiArgs
    /\ IsExecutionFailed(d_result)
    /\ d_result.result.value.error.cause.keys =
           {"age", "gender", "activity_level"}

\* C7: for a registered name and arguments on which the implementation
\* returns, execute_function returns exactly the implementation's value.
C7_SuccessReturnedUnchanged ==
    (/\ d_pc = "done"
     /\ d_name \in DOMAIN FUNCTION_MAP
     /\ Call(FUNCTION_MAP[d_name], d_args).kind = "return")
        => /\ d_result.result.kind = "return"
           /\ d_result.result.value = Call(FUNCTION_MAP[d_name], d_args).value

C7_Witness ==
    /\ d_pc = "done"
    /\ d_name = "calculate_bmi"
    /\ d_args = BmiArgs
    /\ d_result.result.kind = "return"
    /\ DOMAIN d_result.result.value =
           {"bmi", "category", "health_status", "recommendation",
            "weight_kg", "height_cm"}
    /\ d_result.result.value.bmi.tenths = 247
    /\ d_result.result.value.category = "Normal weight"

\* session s leaves its handler because a model call failed
ModelCallFails(s) ==
    /\ pc[s] \in {"first_request", "second_request", "stream"}
    /\ HandlerReturns(s)
    /\ outcome'[s] # "completed"

\* C8: when a model call fails, the history after the turn is the history
\* before the turn.
C8_FailedTurnRestoresHistory ==
    [][\A s \in Sessions : ModelCallFails(s) => messages'[s] = pre[s]]_vars

\* C9: a failing model call is caught by the handler: exactly one error
\* message with the error prefix is sent, by the failing step and by no
\* other step of the turn, nothing escapes, and the session awaits input.
C9_ModelFailureReportedOnce ==
    [][\A s \in Sessions :
          /\ ModelCallFails(s) =>
                /\ outcome'[s] \in {"failed_initial", "failed_post_tool",
                                    "failed_stream"}
                /\ pc'[s] = "idle"
                /\ Len(sent'[s]) = Len(sent[s]) + 1
                /\ SubSeq(sent'[s], 1, Len(sent[s])) = sent[s]
                /\ sent'[s][Len(sent'[s])].kind = "error"
                /\ sent'[s][Len(sent'[s])].prefix = ERROR_PREFIX
          /\ (pc[s] # "idle" /\ ~HandlerReturns(s)) => sent'[s] = sent[s]]_vars

\* a failed turn followed by a completed one
C9_Witness ==
    \E s \in Sessions :
        /\ pc[s] = "idle" /\ begun[s] = 2 /\ completed[s] = 1
        /\ outcome[s] = "completed"
        /\ Len(sent[s]) = 2 /\ sent[s][2].kind = "error"
        /\ Len(messages[s]) = 4
        /\ IsText(messages[s][2], "user")
        /\ IsText(messages[s][3], "user")
        /\ IsText(messages[s][4], "assistant")

\* C10: when the dispatcher answers a call with an error value (unknown
\* name, or the call of the implementation raised), the handler sends no
\* error message and goes on: the error value, serialized, is the content
\* of that call's tool-result message, the loop continues with the next
\* call, and the post-tool request is reached with all k results appended.
C10_DispatcherErrorFedBack ==
    [][\A s \in Sessions :
          /\ (pc[s] = "tools" /\ (pc'[s] # pc[s] \/ idx'[s] # idx[s])) =>
                LET tool_call == tool_calls[s][idx[s]]
                    name == tool_call.function.name
                    args == json_loads(tool_call.function.arguments)
                    n == Len(messages[s])
                IN  (/\ args.kind = "return"
                     /\ \/ name \notin DOMAIN FUNCTION_MAP
                        \/ Call(FUNCTION_MAP[name], args.value).kind = "raise")
                    => /\ sent'[s] = sent[s]
                       /\ outcome'[s] = "running"
                       /\ idx'[s] = idx[s] + 1
                       /\ pc'[s] = IF idx[s] < Len(tool_calls[s])
                                   THEN "tools" ELSE "second_request"
                       /\ Len(messages'[s]) = n + 1
                       /\ SubSeq(messages'[s], 1, n) = messages[s]
                       /\ messages'[s][n + 1].role = "tool"
                       /\ messages'[s][n + 1].tool_call_id = tool_call.id
                       /\ DOMAIN messages'[s][n + 1].content = {"json"}
                       /\ DOMAIN messages'[s][n + 1].content.json = {"error"}
          /\ pc[s] = "second_request" =>
                ToolResultsMatch(messages[s], Len(pre[s]) + 2, tool_calls[s])]_vars

\* a completed turn in which an error value was fed back, another call was
\* dispatched after it, and no error message was sent
C10_Witness ==
    \E s \in Sessions :
        /\ pc[s] = "idle" /\ outcome[s] = "completed"
        /\ Len(sent[s]) = 1
        /\ Len(messages[s]) = 6
        /\ messages[s][4].role = "tool"
        /\ DOMAIN messages[s][4].content.json = {"error"}
        /\ messages[s][4].content.json.error.name = "unknown_tool"
        /\ messages[s][5].role = "tool"
        /\ IsText(messages[s][6], "assistant")

\* C11: in every state of a started session, after any number of completed
\* or failed turns, the first message of the history is the system prompt
\* and no later position holds a message with role system.
C11_SystemPromptFirstAndOnly ==
    \A s \in Sessions :
        started[s] =>
            /\ Len(messages[s]) >= 1
            /\ messages[s][1] = SystemMessage
            /\ \A i \in 2..Len(messages[s]) : messages[s][i].role # "system"

\* a failed turn followed by a completed tool turn
C11_Witness ==
    \E s \in Sessions :
        /\ pc[s] = "idle" /\ begun[s] = 2 /\ completed[s] = 1
        /\ Len(messages[s]) = 6
        /\ messages[s][1] = SystemMessage
        /\ IsToolRequest(messages[s][4])

\* C12: the history is append-only: in every step, each session's history
\* before the step is a prefix of its history after the step.
C12_HistoryAppendOnly ==
    [][\A s \in Sessions :
          /\ Len(messages'[s]) >= Len(messages[s])
          /\ SubSeq(messages'[s], 1, Len(messages[s])) = messages[s]]_vars

\* a tool turn that has read two chunks of the post-tool stream
C12_Witness ==
    \E s \in Sessions :
        /\ pc[s] = "stream" /\ Len(chunks[s]) = 2
        /\ Len(messages[s]) >= 4
        /\ messages[s][Len(messages[s])].role = "tool"

\* C13: when calculate_body_fat_navy is called for a gender other than male
\* without hip_cm, execute_function returns the execution-failed error
\* value it returns for a raised exception.
C13_SentinelTranslated ==
    (/\ d_pc = "done"
     /\ d_name = "calculate_body_fat_navy"
     /\ Required(d_name) \subseteq DOMAIN d_args
     /\ DOMAIN d_args \subseteq Params(d_name)
     /\ "hip_cm" \notin DOMAIN d_args
     /\ IsStr(d_args.gender) /\ d_args.gender # Str("male"))
        => IsExecutionFailed(d_result)

\* C14: when the arguments of the current tool call do not decode, the step
\* sends no error message, appends an error value as that call's
\* tool-result message and goes on to the next call or to the post-tool
\* request.
C14_MalformedArgumentsFedBack ==
    [][\A s \in Sessions :
          (/\ pc[s] = "tools"
           /\ (pc'[s] # pc[s] \/ idx'[s] # idx[s])
           /\ json_loads(tool_calls[s][idx[s]].function.arguments).kind
                  = "raise")
              => LET n == Len(messages[s])
                 IN  /\ sent'[s] = sent[s]
                     /\ pc'[s] = IF idx[s] < Len(tool_calls[s])
                                 THEN "tools" ELSE "second_request"
                     /\ Len(messages'[s]) = n + 1
                     /\ messages'[s][n + 1].role = "tool"
                     /\ messages'[s][n + 1].tool_call_id
                            = tool_calls[s][idx[s]].id
                     /\ DOMAIN messages'[s][n + 1].content.json = {"error"}]_vars

\* the requests of a handler run: at most two, the first with the catalog
\* and tool use enabled, the second streamed and without tools
RequestsWellFormed(rs) ==
    /\ Len(rs) \in 1..2
    /\ rs[1].tools = TOOLS /\ rs[1].tool_choice = "auto" /\ ~rs[1].stream
    /\ Len(rs) = 2 =>
          /\ rs[2].stream /\ rs[2].tools = <<>>
          /\ rs[2].tool_choice = "unset"

\* C15: every turn makes at most two model requests, the first with the
\* catalog and tool use enabled; a second request, streamed and with tool
\* use disabled, is made if and only if the first reply carries tool calls.
C15_SecondRequestIffToolCalls ==
    [][\A s \in Sessions :
          HandlerReturns(s) =>
              /\ RequestsWellFormed(requests'[s])
              /\ tool_calls[s] # <<>> <=> Len(requests'[s]) = 2]_vars

\* the last part of C15: a handler run that was entered returns
HandlerTerminates ==
    \A s \in Sessions : (pc[s] # "idle") ~> (pc[s] = "idle")

\* the text of a stream: its fragments in arrival order
RECURSIVE Concat(_)
Concat(q) == IF q = <<>> THEN <<>> ELSE Head(q) \o Concat(Tail(q))

\* C16: in a completed tool turn, the content of the final assistant
\* message is the concatenation of the streamed fragments, nothing else.
C16_FinalContentIsStreamText ==
    [][\A s \in Sessions :
          (pc[s] = "stream" /\ HandlerReturns(s)
              /\ outcome'[s] = "completed") =>
              LET last == messages'[s][Len(messages'[s])]
              IN  /\ IsText(last, "assistant")
                  /\ last.content = Concat(chunks[s])]_vars

\* C17: in one tool round, execute_function is called exactly once per tool
\* call, in the order of the calls, the i-th call beginning when the
\* results of the i - 1 calls before it have been appended.
C17_OneDispatchPerCallInOrder ==
    [][\A s \in Sessions :
          (HandlerReturns(s) /\ tool_calls[s] # <<>>) =>
              /\ Len(calls'[s]) = Len(tool_calls[s])
              /\ \A i \in 1..Len(calls'[s]) :
                    /\ calls'[s][i].name = tool_calls[s][i].function.name
                    /\ json_dumps(calls'[s][i].arguments)
                          = tool_calls[s][i].function.arguments
                    /\ calls'[s][i].at = Len(pre[s]) + 1 + i]_vars

\* what holds of the dispatches that are made: never more than one per
\* call, in call order, each after the results before it
DispatchesInOrder ==
    \A s \in Sessions :
        (pc[s] # "idle" /\ tool_calls[s] # <<>>) =>
            /\ Len(calls[s]) = idx[s] - 1
            /\ \A i \in 1..Len(calls[s]) :
                  /\ calls[s][i].name = tool_calls[s][i].function.name
                  /\ calls[s][i].at = Len(pre[s]) + 1 + i
                  /\ messages[s][Len(pre[s]) + 2 + i].tool_call_id
                        = tool_calls[s][i].id

\* everything that belongs to session s
Local(s) ==
    <<started[s], messages[s], sent[s], pc[s], pre[s], tool_calls[s],
      idx[s], msg_content[s], chunks[s], requests[s], calls[s], outcome[s],
      begun[s], completed[s], requested[s], streamed[s]>>

\* C18: sessions are isolated: a step that changes anything of one session
\* (its start() or a step of its handler) leaves the history and every
\* other component of every other session unchanged.
C18_SessionsIsolated ==
    [][\A s, t \in Sessions :
          (s # t /\ Local(s)' # Local(s)) => Local(t)' = Local(t)]_vars

\* two sessions in the middle of their turns, at different places
C18_Witness ==
    \E s, t \in Sessions :
        /\ s # t
        /\ pc[s] = "tools" /\ Len(messages[s]) = 3
        /\ pc[t] = "stream" /\ Len(chunks[t]) >= 1 /\ Len(messages[t]) = 4

\* C20: the catalog is constant: the global is bound to the catalog it was
\* defined as in every state, and every tool-enabled request of a handler
\* run, which is its first, carries that catalog whole.
C20_CatalogConstant ==
    /\ tools = TOOLS
    /\ \A s \in Sessions :
          /\ requests[s] # <<>> => requests[s][1].tool_choice = "auto"
          /\ \A i \in 1..Len(requests[s]) :
                requests[s][i].tool_choice = "auto" =>
                    requests[s][i].tools = TOOLS

\* a run that failed at the post-tool request after a dispatcher error
C20_Witness ==
    \E s \in Sessions :
        /\ outcome[s] = "failed_post_tool"
        /\ Len(requests[s]) = 2
        /\ Len(requests[s][1].tools) = 13
        /\ Len(calls[s]) = 1 /\ calls[s][1].name = "unknown_tool"

\* the runs of the session that have been entered and have not returned
Running == {t \in Tasks : runs[t].pc \notin {"new", "done"}}

\* C19: the turns of one session do not interleave: at most one run of the
\* handler is under way, and no user message lies between a run's user
\* message and the last message the run appended (while the run is under
\* way: the end of the history).
C19_TurnsDoNotInterleave ==
    /\ Cardinality(Running) <= 1
    /\ \A t \in Tasks :
          runs[t].pc # "new" =>
              LET h == messages[OverlapSession]
                  last == IF runs[t].pc = "done" THEN runs[t].end ELSE Len(h)
              IN  \A i \in (runs[t].at + 1)..last : h[i].role # "user"

\* the dispatcher has returned what calculator name returned
Calculated(name) ==
    /\ d_pc = "done" /\ d_name = name
    /\ d_result.result.kind = "return"
    /\ "error" \notin DOMAIN d_result.result.value

\* the category the thresholds 18.5 / 25 / 30 give to n / d tenths
CategoryOfTenths(n, d) ==
    IF n < 185 * d THEN "Underweight"
    ELSE IF n < 250 * d THEN "Normal weight"
    ELSE IF n < 300 * d THEN "Overweight"
    ELSE "Obese"

\* C21: calculate_bmi returns the quotient weight_kg / (height_cm/100)^2
\* rounded to the nearest tenth, and the category the thresholds give to
\* the quotient; for 80 kg and 180 cm, 24.7 and "Normal weight".
C21_BmiValueAndCategory ==
    Calculated("calculate_bmi") =>
        LET n == 100000 * d_args.weight_kg.num
            d == d_args.height_cm.num * d_args.height_cm.num
            r == d_result.result.value
        IN  /\ 2 * r.bmi.tenths * d <= 2 * n + d
            /\ 2 * r.bmi.tenths * d >= 2 * n - d
            /\ r.category = CategoryOfTenths(n, d)
            /\ d_args = BmiArgs =>
                  r.bmi.tenths = 247 /\ r.category = "Normal weight"

\* the multipliers C22 names, in thousandths
NamedMultiplier(level) ==
    CASE level = "sedentary" -> 1200
      [] level = "light" -> 1375
      [] level = "moderate" -> 1550
      [] level = "active" -> 1725
      [] level = "very_active" -> 1900

C23_OneRepMaxDispatched ==
    Calculated("calculate_one_rep_max") =>
        LET r == d_result.result.value
            w == d_args.weight.num
            reps == d_args.reps.num
            \* one_rm * 30
            one_rm30 == IF reps = 1 THEN 30 * w ELSE w * (30 + reps)
        IN  /\ 6 * r.one_rep_max.tenths <= 2 * one_rm30 + 3
            /\ 6 * r.one_rep_max.tenths >= 2 * one_rm30 - 3
            /\ reps = 1 => r.one_rep_max.tenths = 10 * w
            /\ (w = 100 /\ reps = 5) => r.one_rep_max.tenths = 1167

C23_Witness ==
    /\ Calculated("calculate_one_rep_max")
    /\ d_args = [weight |-> Num(100), reps |-> Num(5)]
    /\ d_result.invoked = <<"calculate_one_rep_max">>
    /\ d_result.result.value.one_rep_max.tenths = 1167

\* C24: what a request sends is the history at that moment.  The first
\* request of a run sends the history up to and including the run's user
\* message; the post-tool request sends the same messages, then the
\* assistant message with the k tool calls, then the k tool results.
C24_RequestsSendCurrentHistory ==
    \A s \in Sessions :
        requests[s] # <<>> =>
            LET h == messages[s]
                r1 == requests[s][1].messages
                n1 == Len(r1)
            IN  /\ n1 >= 2 /\ n1 <= Len(h)
                /\ r1 = SubSeq(h, 1, n1)
                /\ r1[1] = SystemMessage
                /\ IsText(r1[n1], "user")
                /\ pc[s] # "idle" => n1 = Len(pre[s]) + 1
                /\ Len(requests[s]) = 2 =>
                      LET r2 == requests[s][2].messages
                          n2 == Len(r2)
                      IN  /\ n2 >= n1 + 2 /\ n2 <= Len(h)
                          /\ r2 = SubSeq(h, 1, n2)
                          /\ IsToolRequest(r2[n1 + 1])
                          /\ n2 = n1 + 1 + Len(r2[n1 + 1].tool_calls)
                          /\ ToolResultsMatch(r2, n1 + 1,
                                              r2[n1 + 1].tool_calls)

\* a second turn with two tool calls, after a first turn without
C24_Witness ==
    \E s \in Sessions :
        /\ begun[s] = 2 /\ Len(requests[s]) = 2
        /\ Len(requests[s][1].messages) = 4
        /\ Len(requests[s][2].messages) = 7
        /\ requests[s][2].messages[7].role = "tool"

\* C25: the final assistant message is appended only when the stream has
\* ended: while the stream is read, and after it has failed, the last
\* message of the history is the last tool result; no assistant message
\* holding the text received so far is there.
C25_NoPartialAssistantMessage ==
    \A s \in Sessions :
        (pc[s] = "stream" \/ outcome[s] = "failed_stream") =>
            LET h == messages[s]
            IN  /\ h[Len(h)].role = "tool"
                /\ \A i \in 1..Len(h) :
                      IsText(h[i], "assistant") =>
                          \E j \in (i + 1)..Len(h) : IsText(h[j], "user")

\* a stream that failed after chunks were read
C25_Witness ==
    \E s \in Sessions :
        /\ pc[s] = "idle" /\ outcome[s] = "failed_stream"
        /\ streamed[s] = 2
        /\ messages[s][Len(messages[s])].role = "tool"
        /\ Len(sent[s]) = 2 /\ sent[s][2].kind = "error"

\* the names the catalog advertises
CatalogNames == {TOOLS[i].name : i \in DOMAIN TOOLS}

\* C26: the names of the catalog are pairwise distinct and are exactly the
\* keys of FUNCTION_MAP; dispatching an advertised name never gives the
\* not-found error, and a name that reaches an implementation is
\* advertised.
C26_CatalogMatchesFunctionMap ==
    /\ \A i, j \in DOMAIN TOOLS : TOOLS[i].name = TOOLS[j].name => i = j
    /\ CatalogNames = DOMAIN FUNCTION_MAP
    /\ d_pc = "done" =>
          /\ d_name \in CatalogNames =>
                /\ d_result.invoked # <<>>
                /\ d_result.result.kind = "return"
                /\ d_result.result.value # NotFound(d_name)
          /\ d_result.invoked # <<>> => d_name \in CatalogNames

C26_Witness ==
    /\ d_pc = "done"
    /\ d_name = TOOLS[Len(TOOLS)].name
    /\ d_args = ValidArgs(d_name)
    /\ d_result.invoked = <<"get_healthy_alternatives">>
    /\ "error" \notin DOMAIN d_result.result.value

\* C27: for every tool of the catalog, each parameter the implementation
\* declares without a default is in the schema's required list and each
\* property of the schema is a parameter of the implementation; so a
\* dispatch whose keys hold all required names and only declared names
\* binds: it does not fail with a missing or an unexpected argument.
C27_SchemaFitsSignature ==
    /\ \A i \in DOMAIN TOOLS :
          /\ TOOLS[i].name \in DOMAIN FUNCTION_MAP
          /\ Required(FUNCTION_MAP[TOOLS[i].name]) \subseteq TOOLS[i].required
          /\ TOOLS[i].properties \subseteq Params(FUNCTION_MAP[TOOLS[i].name])
          /\ TOOLS[i].required \subseteq TOOLS[i].properties
    /\ (/\ d_pc = "done"
        /\ d_name \in CatalogNames
        /\ TOOLS[SchemaRequired(d_name)].required \subseteq DOMAIN d_args
        /\ DOMAIN d_args \subseteq TOOLS[SchemaRequired(d_name)].properties)
          => /\ d_result.result.kind = "return"
             /\ IsExecutionFailed(d_result) =>
                   d_result.result.value.error.cause.keys = {}

\* progressive overload dispatched without its optional progression_type
C27_Witness ==
    /\ d_pc = "done"
    /\ d_name = "calculate_progressive_overload"
    /\ DOMAIN d_args = {"current_weight", "current_reps", "target_reps"}
    /\ d_result.invoked = <<"calculate_progressive_overload">>
    /\ d_result.result.kind = "return"
    /\ "error" \notin DOMAIN d_result.result.value

\* the lines read so far that main passes to chat_with_agent
Prompts ==
    LET stripped == [i \in 1..Len(agent.lines) |-> Strip(agent.lines[i])]
        Asked(l) == l # "" /\ Lower(l) \notin QuitWords
    IN  SelectSeq(stripped, Asked)

\* Every call of chat_with_agent sent the fixed system message and its
\* own prompt, whatever was called before; a call that has returned gave
\* the reply's content, or a string starting with "Error: " when the model
\* call raised; the calls are those of the non-empty lines that are not
\* quit words.
ChatWithAgentStatelessAndTotal ==
    /\ Len(agent.calls) = Len(Prompts)
    /\ \A i \in 1..Len(agent.calls) :
          LET c == agent.calls[i]
          IN  /\ c.prompt = Prompts[i]
              /\ Len(c.request) = 2
              /\ c.request[1] = [role |-> "system",
                                 content |-> AGENT_SYSTEM_PROMPT]
              /\ c.request[2] = [role |-> "user", content |-> c.prompt]
              /\ (i < Len(agent.calls) \/ agent.pc # "call") =>
                    /\ Len(c.returned) > 0
                    /\ c.ok => \E content \in AgentReplies :
                                  c.returned = <<content>>
                    /\ ~c.ok => c.returned[1] = "Error: "
    /\ agent.pc = "call" => Len(agent.calls) > 0

\* C29: chat_with_agent is stateless and total (two messages per call,
\* the reply on success, a string starting with "Error: " on a failed
\* model call), and main's loop goes on after every call, issues no call
\* for an empty line, and is over only once a line read is quit, exit or
\* q.
C29_AgentStatelessTotalLoopEndsOnQuit ==
    /\ ChatWithAgentStatelessAndTotal
    /\ agent.pc \in {"off", "input", "call", "ended", "raised"}
    /\ agent.pc \in {"ended", "raised"} =>
          /\ Len(agent.lines) > 0
          /\ Lower(Strip(agent.lines[Len(agent.lines)])) \in QuitWords

\* two calls, the first failed and the second answered, then quit
AgentFailedCallThenReplyThenQuit ==
    /\ agent.pc = "ended"
    /\ Len(agent.calls) = 2
    /\ ~agent.calls[1].ok
    /\ agent.calls[2].ok
    /\ agent.printed[Len(agent.printed)] = GOODBYE

\* C28: the category calculate_bmi returns is the one the thresholds
\* 18.5 / 25 / 30 give to the one-decimal bmi it returns.
C28_CategoryMatchesReturnedBmi ==
    Calculated("calculate_bmi") =>
        LET r == d_result.result.value
        IN  r.category = CategoryOfTenths(r.bmi.tenths, 1)

====
